---- MODULE Spec2Model ----
(***************************************************************************)
(* Model of the KIRA occupation recommendation engine                      *)
(* (FraunhoferIAO/kira-job-recommender): JobMatcher (history / preference  *)
(* / rating filters, distance ranker, zone calculator), JobRecommender     *)
(* (comfort-zone refiner) and RecommenderPipeline (orchestrator).          *)
(*                                                                         *)
(* Conventions.                                                            *)
(*  - A pandas DataFrame is a sequence of rows (row order is the frame's   *)
(*    order).  A row is [conceptUri, user_id]: rows of the occupation pool *)
(*    have user_id = NoUser and carry the occupation's FS1..FS10 columns,  *)
(*    rows of the expanded peer frame have the peer's id and carry the     *)
(*    PEER's FS1..FS10 columns (expand_rows copies row.to_dict()).         *)
(*  - A call either returns a value or raises: [err |-> "none", val |-> v] *)
(*    or [err |-> <exception>, val |-> <<>>].                              *)
(*  - FS values are integers on the 0..100 scale of the transformed        *)
(*    profiles; a Euclidean distance d is compared through d*d.            *)
(***************************************************************************)
EXTENDS Integers, Sequences, FiniteSets, TLC

VARIABLES
    pc,                        \* position of the modelled call / request
    transformed_profiles,      \* the candidate pool (frame indexed by conceptUri)
    job_history,               \* list of {uri: liked} dicts, or None
    preferences,               \* list of sector numbers, or None
    rated_conceptUri_list,     \* the user's RecommendationLog: list of uris, or nan
    user_profile_rating_list,  \* the user's RatingLog: list of ratings, or nan
    user_profiles,             \* the PeerCorpus (reference user profiles)
    filtered_profiles,         \* match_user_profile: the bucket it selects
    target_profile,            \* FS1..FS10 of the user
    candidates,                \* the frame handed to the ranker / zone calculator / refiner
    transformed_profiles_preferred, \* the refiner's preference-filtered pool
    job_columns,               \* cell type of the PeerCorpus frame's job_recommendations
                               \* and job_ratings columns: "str" as read, or "list"
    process,                   \* the serving process: "running" or "exited"
    response,                  \* what the client of the last request got
    runs,                      \* what the runs of the pipeline so far returned or raised
    argsort_memo,              \* the pairs (array, order) np.argsort has produced so far
    ret                        \* what the modelled call returned or raised

inputs == <<transformed_profiles, job_history, preferences,
            rated_conceptUri_list, user_profile_rating_list, user_profiles,
            transformed_profiles_preferred>>

host == <<process, response>>

repeat == <<runs, argsort_memo>>

vars == <<pc, inputs, filtered_profiles, target_profile, candidates,
          job_columns, host, repeat, ret>>

----------------------------------------------------------------------------
(* Python values *)

\* a Python value that is None, float nan or a list
None == [kind |-> "None", items |-> <<>>]
NaN == [kind |-> "nan", items |-> <<>>]
List(s) == [kind |-> "list", items |-> s]

NoUser == "-"

\* a frame with its rows and whether conceptUri is a column of it (the frame
\* filter_by_preferences merges) or only its index (the pool app.py loads)
MergedFrame(rows) == [conceptUri_column |-> TRUE, rows |-> rows]
IndexedFrame(rows) == [conceptUri_column |-> FALSE, rows |-> rows]

\* what a client gets: the HTTP status and the uri of the profile sent
NoUri == "-"
NoResponse == [status |-> "none", uri |-> NoUri]

Ok(v) == [err |-> "none", val |-> v]
Raise(e) == [err |-> e, val |-> <<>>]

Range(s) == {s[i] : i \in 1..Len(s)}

RECURSIVE SelectRows(_, _)
\* df[mask]: the rows whose label / row satisfies the mask, in frame order
SelectRows(df, keep) ==
    IF df = <<>> THEN <<>>
    ELSE IF Head(df) \in keep THEN <<Head(df)>> \o SelectRows(Tail(df), keep)
    ELSE SelectRows(Tail(df), keep)

IsPrefix(p, s) == Len(p) <= Len(s) /\ SubSeq(s, 1, Len(p)) = p

----------------------------------------------------------------------------
(* Reference data: the ESCO tables read by esco_helper and the transformed *)
(* occupation FS profiles.  Codes are strings, modelled as sequences of    *)
(* characters.                                                             *)

FSDim == 10

\* occupations_de.csv: conceptUri and code, dtype=str
occupations == <<
    [conceptUri |-> "a", code |-> <<"2", ".", "1">>],
    [conceptUri |-> "b", code |-> <<"2", ".", "1", ".", "1">>],
    [conceptUri |-> "c", code |-> <<"2", ".", "1", ".", "2">>],
    [conceptUri |-> "d", code |-> <<"2", ".", "1", ".", "1", "0">>],
    [conceptUri |-> "e", code |-> <<"3", ".", "1">>],
    [conceptUri |-> "f", code |-> <<"3", ".", "1", ".", "1">>],
    [conceptUri |-> "k", code |-> <<"3", ".", "1", ".", "2">>],
    [conceptUri |-> "m", code |-> <<"2", ".", "1", ".", "1", ".", "1">>] >>

\* ISCOGroups_de.csv
ISCO_groups == <<
    [conceptUri |-> "g", code |-> <<"2">>],
    [conceptUri |-> "h", code |-> <<"3">>] >>

\* esco_helper.load_look_up_table: concat of the tables, indexed by conceptUri
look_up_table == occupations \o ISCO_groups

OccUris == {occupations[i].conceptUri : i \in 1..Len(occupations)}
TaxonomyUris == {look_up_table[i].conceptUri : i \in 1..Len(look_up_table)}

\* a uri that no ESCO table knows
UnknownUri == "z"

\* esco_helper.look_up_code: look_up_table.loc[uri]["code"]
look_up_code(uri) ==
    (CHOOSE r \in Range(look_up_table) : r.conceptUri = uri).code

\* FS1..FS10 of an occupation's transformed profile
Vec(x, y) == [i \in 1..FSDim |-> IF i = 1 THEN x ELSE IF i = 2 THEN y ELSE 50]

OccFS(uri) ==
    CASE uri = "a" -> Vec(50, 50)
      [] uri = "b" -> Vec(60, 50)
      [] uri = "c" -> Vec(80, 50)
      [] uri = "d" -> Vec(50, 90)
      [] uri = "e" -> Vec(50, 10)
      [] uri = "f" -> Vec(50, 20)
      [] uri = "k" -> Vec(90, 10)
      [] uri = "m" -> Vec(65, 50)
      [] OTHER -> Vec(0, 0)

PoolRow(uri) == [conceptUri |-> uri, user_id |-> NoUser]

\* reference_user_profiles: one row per peer.  job_recommendations and
\* job_ratings are the comma-separated logs (here: a sequence of
\* [uri, rating], empty for nan), interests the sector numbers that
\* mapSectorsToNumbers finds in professional_interests.
reference_user_profiles == <<
    [user_id |-> "p1", fs |-> Vec(55, 50), interests |-> {1},
     log |-> <<[uri |-> "a", rating |-> "1"], [uri |-> "b", rating |-> "1"],
               [uri |-> "e", rating |-> "-1"]>>],
    [user_id |-> "p2", fs |-> Vec(50, 15), interests |-> {2},
     log |-> <<[uri |-> "b", rating |-> "1"], [uri |-> "a", rating |-> "1"]>>],
    [user_id |-> "p3", fs |-> Vec(70, 50), interests |-> {},
     log |-> <<[uri |-> "a", rating |-> "-1"], [uri |-> "e", rating |-> "1"],
               [uri |-> "z", rating |-> "1"]>>],
    [user_id |-> "p4", fs |-> Vec(50, 50), interests |-> {1, 2},
     log |-> <<>>] >>

PeerFS(user_id) ==
    (CHOOSE p \in Range(reference_user_profiles) : p.user_id = user_id).fs

PeerInterests(user_id) ==
    (CHOOSE p \in Range(reference_user_profiles) : p.user_id = user_id).interests

\* bug: the row of a peer carries the vector of the occupation
RowOccupationFS(row) == OccFS(row.conceptUri)

\* the FS1..FS10 columns of a frame row
RowFS(row) ==
    IF row.user_id = NoUser THEN OccFS(row.conceptUri) ELSE PeerFS(row.user_id)

\* esco2kldb_multiple_assignment.csv: conceptUri -> kldb_keys, the sector
\* digits of the occupation ("[1 2]")
esco2kldb == <<
    [conceptUri |-> "a", kldb_keys |-> {1}],
    [conceptUri |-> "b", kldb_keys |-> {2}],
    [conceptUri |-> "c", kldb_keys |-> {1, 2}],
    [conceptUri |-> "d", kldb_keys |-> {3}],
    [conceptUri |-> "e", kldb_keys |-> {2}],
    [conceptUri |-> "f", kldb_keys |-> {1}],
    [conceptUri |-> "k", kldb_keys |-> {3}],
    [conceptUri |-> "m", kldb_keys |-> {2}] >>

IndexOf(df) == {df[i].conceptUri : i \in 1..Len(df)}

----------------------------------------------------------------------------
(* Distances *)

RECURSIVE SumSq(_, _, _)
SumSq(u, v, i) ==
    IF i = 0 THEN 0 ELSE (u[i] - v[i]) * (u[i] - v[i]) + SumSq(u, v, i - 1)

\* sklearn euclidean_distances(u, v) squared, over all FSDim columns
SqEuclidean(u, v) == SumSq(u, v, FSDim)

----------------------------------------------------------------------------
(* HistoryFilter: JobMatcher.filter_by_job_history *)

max_euclidean_distance == 30

\* a label of a pandas Index: a plain string, or the 1-tuple (uri,) that
\* pd.Index makes of each row of a 2-D object array
StrLabel(uri) == <<"str", uri>>
TupleLabel(uri) == <<"tuple", uri>>

\* esco_helper.get_narrower_occupations: the occupations whose code starts
\* with the code of uri and is strictly longer.  The result is
\* occupations[...][["conceptUri"]].values, a 2-D array of shape (n, 1).
get_narrower_occupations(uri) ==
    LET code == look_up_code(uri)
    IN {o.conceptUri : o \in {r \in Range(occupations) :
            IsPrefix(code, r.code) /\ Len(r.code) > Len(code)}}

\* pd.Index(<2-D object array>): com.asarray_tuplesafe turns every row of
\* the array into a tuple, so the labels are (uri,), never uri
PdIndex2D(uris) == {TupleLabel(u) : u \in uris}

PdIndex(uris) == {StrLabel(u) : u \in uris}

\* the bug "if value" for "if not value": liked entries are taken as disliked
RECURSIVE jobs_disliked_liked(_)
jobs_disliked_liked(history) ==
    IF history = <<>> THEN <<>>
    ELSE IF Head(history).liked
         THEN <<Head(history).uri>> \o jobs_disliked_liked(Tail(history))
         ELSE jobs_disliked_liked(Tail(history))

\* jobs_disliked = [key for job_dict in job_history
\*                      for key, value in job_dict.items() if not value]
RECURSIVE jobs_disliked(_)
jobs_disliked(history) ==
    IF history = <<>> THEN <<>>
    ELSE IF ~Head(history).liked
         THEN <<Head(history).uri>> \o jobs_disliked(Tail(history))
         ELSE jobs_disliked(Tail(history))

\* removed_profiles = job_fs_profiles[similarities < max_euclidean_distance].index
removed_profiles(job_fs_profiles, job) ==
    {r.conceptUri : r \in {x \in Range(job_fs_profiles) :
        SqEuclidean(OccFS(job), RowFS(x))
            < max_euclidean_distance * max_euclidean_distance}}

\* all_jobs_to_remove = profiles_to_remove.union(narrower_jobs_to_remove)
all_jobs_to_remove(job_fs_profiles, disliked) ==
    UNION {PdIndex({job}) \cup PdIndex(removed_profiles(job_fs_profiles, job))
              : job \in Range(disliked)}
    \cup UNION {PdIndex2D(get_narrower_occupations(job)) : job \in Range(disliked)}

filter_by_job_history(job_fs_profiles, history) ==
    IF history = None
    THEN Raise("TypeError")            \* iterating None
    ELSE LET disliked == jobs_disliked(history.items)
         IN IF Len(disliked) > 0
            THEN IF \E job \in Range(disliked) :
                        \/ job \notin IndexOf(job_fs_profiles)   \* .loc[job]
                        \/ job \notin TaxonomyUris               \* look_up_code
                 THEN Raise("KeyError")
                 ELSE LET remove == all_jobs_to_remove(job_fs_profiles, disliked)
                      IN Ok(SelectRows(job_fs_profiles,
                              {r \in Range(job_fs_profiles) :
                                  StrLabel(r.conceptUri) \notin remove}))
            ELSE Ok(job_fs_profiles)

----------------------------------------------------------------------------
(* PreferenceFilter: JobMatcher.filter_by_preferences *)

kldb_keys(uri) ==
    (CHOOSE r \in Range(esco2kldb) : r.conceptUri = uri).kldb_keys

\* job_fs_profiles.merge(esco2kldb, left_on="conceptUri", right_on="conceptUri"):
\* an inner join in the order of the left frame
merge_esco2kldb(job_fs_profiles) ==
    SelectRows(job_fs_profiles,
        {r \in Range(job_fs_profiles) :
            \E k \in Range(esco2kldb) : k.conceptUri = r.conceptUri})

\* str(n) of a small natural number, as its characters
str(n) ==
    LET digit(d) == CASE d = 0 -> "0" [] d = 1 -> "1" [] d = 2 -> "2"
                      [] d = 3 -> "3" [] d = 4 -> "4" [] d = 5 -> "5"
                      [] d = 6 -> "6" [] d = 7 -> "7" [] d = 8 -> "8"
                      [] OTHER -> "9"
    IN IF n < 10 THEN <<digit(n)>> ELSE <<digit(n \div 10), digit(n % 10)>>

RECURSIVE keys_from(_, _)
\* the keys of a cell from a digit on, in ascending order, blank-separated
keys_from(keys, d) ==
    IF d > 9 THEN <<>>
    ELSE IF d \notin keys THEN keys_from(keys, d + 1)
    ELSE LET rest == keys_from(keys, d + 1)
         IN IF rest = <<>> THEN str(d) ELSE str(d) \o <<" ">> \o rest

\* the kldb_keys cell of an occupation: the string "[1 2]"
kldb_keys_str(uri) == <<"[">> \o keys_from(kldb_keys(uri), 0) \o <<"]">>

\* re.search of a literal in a string
contains(string, literal) ==
    \E i \in 0..(Len(string) - Len(literal)) :
        SubSeq(string, i + 1, i + Len(literal)) = literal

\* bug: only the first key of the cell is looked at
str_contains_first(string, prefs) ==
    prefs = <<>> \/ \E i \in 1..Len(prefs) : contains(string, <<"[">> \o str(prefs[i]))

\* bug: the empty pattern matches no row
str_contains_some(string, prefs) ==
    \E i \in 1..Len(prefs) : contains(string, str(prefs[i]))

\* kldb_keys.str.contains("|".join(map(str, preferences)), regex=True): some
\* alternative of the pattern occurs in the string; the empty pattern matches
\* every row
str_contains(string, prefs) ==
    prefs = <<>> \/ \E i \in 1..Len(prefs) : contains(string, str(prefs[i]))

\* returns the pair (job_fs_profiles, job_fs_profiles)
filter_by_preferences(job_fs_profiles, prefs) ==
    LET merged == merge_esco2kldb(job_fs_profiles)
        kept == IF prefs # None
                THEN SelectRows(merged,
                        {r \in Range(merged) :
                            str_contains(kldb_keys_str(r.conceptUri), prefs.items)})
                ELSE merged
    IN Ok(<<kept, kept>>)

----------------------------------------------------------------------------
(* RatingFilter: JobMatcher.filter_by_rating *)

(* The cells of the PeerCorpus frame's job_recommendations and job_ratings *)
(* columns.  A string is the sequence of its comma-separated pieces with    *)
(* the commas between them.                                                 *)

Str(pieces) == [kind |-> "str", items |-> pieces]

RECURSIVE join(_)
\* ",".join(list)
join(list) ==
    IF Len(list) <= 1 THEN list
    ELSE <<Head(list), ",">> \o join(Tail(list))

RECURSIVE split(_, _)
\* str.split(","), with the piece collected so far
split(pieces, current) ==
    IF pieces = <<>> THEN <<current>>
    ELSE IF Head(pieces) = "," THEN <<current>> \o split(Tail(pieces), <<>>)
    ELSE split(Tail(pieces), current \o <<Head(pieces)>>)

\* the pieces between the commas, each piece one uri or one rating
split_items(pieces) ==
    LET parts == split(pieces, <<>>)
    IN [i \in 1..Len(parts) |-> IF parts[i] = <<>> THEN "" ELSE parts[i][1]]

\* the cell of a column as read_csv loads it ("str", an empty cell is nan) or
\* as expand_user_profiles has left it ("list")
cell(values, cells) ==
    IF cells = "list" THEN List(values)
    ELSE IF values = <<>> THEN NaN
    ELSE Str(join(values))

\* bug: a cell that is already a list falls through to the last branch
process_column_data_str_only(item) ==
    IF item.kind = "nan" THEN List(<<>>)
    ELSE IF item.kind = "str" THEN List(split_items(item.items))
    ELSE List(<<>>)

\* expand_user_profiles.process_column_data
process_column_data(item) ==
    IF item.kind = "list" THEN item
    ELSE IF item.kind = "nan" THEN List(<<>>)
    ELSE IF item.kind = "str" THEN List(split_items(item.items))
    ELSE List(<<>>)

\* the frame expand_user_profiles hands to expand_rows: both columns parsed;
\* log is zip(job_recommendations, job_ratings)
df_cleaned(df_user_profiles, cells) ==
    [n \in 1..Len(df_user_profiles) |->
        LET p == df_user_profiles[n]
            job_recommendations ==
                process_column_data(
                    cell([i \in 1..Len(p.log) |-> p.log[i].uri], cells)).items
            job_ratings ==
                process_column_data(
                    cell([i \in 1..Len(p.log) |-> p.log[i].rating], cells)).items
            m == IF Len(job_recommendations) < Len(job_ratings)
                 THEN Len(job_recommendations) ELSE Len(job_ratings)
        IN [p EXCEPT !.log = [i \in 1..m |-> [uri |-> job_recommendations[i],
                                               rating |-> job_ratings[i]]]]]

RECURSIVE expand_rows(_)
\* one row per (peer, recommendation, rating) of the peers' logs
expand_rows(df) ==
    IF df = <<>> THEN <<>>
    ELSE [i \in 1..Len(Head(df).log) |->
            [conceptUri |-> Head(df).log[i].uri,
             user_id |-> Head(df).user_id,
             single_job_rating |-> Head(df).log[i].rating]]
         \o expand_rows(Tail(df))

is_nan_or_empty(value) ==
    value.kind = "nan" \/ (value.kind = "list" /\ Len(value.items) = 0)

\* the rows of the expanded frame as bucket rows
BucketRows(df) ==
    [i \in 1..Len(df) |-> [conceptUri |-> df[i].conceptUri, user_id |-> df[i].user_id]]

\* bug: the history filter is left out
preferences_only(job_fs_profiles, prefs, history) ==
    filter_by_preferences(job_fs_profiles, prefs)

\* filter_by_job_history, then filter_by_preferences
history_then_preferences(job_fs_profiles, prefs, history) ==
    LET user_profiles_by_job_history == filter_by_job_history(job_fs_profiles, history)
    IN IF user_profiles_by_job_history.err # "none"
       THEN user_profiles_by_job_history
       ELSE filter_by_preferences(user_profiles_by_job_history.val, prefs)

\* bug: the uris already suggested stay in the pool
transformed_profiles_unfiltered(profiles, rated) == profiles

\* bug: only the uri suggested last is taken out of the pool
transformed_profiles_without_last(profiles, rated) ==
    SelectRows(profiles,
        {r \in Range(profiles) : r.conceptUri # rated.items[Len(rated.items)]})

\* transformed_profiles[~transformed_profiles.index.isin(rated_conceptUri_list)]
transformed_profiles_filtered(profiles, rated) ==
    SelectRows(profiles,
        {r \in Range(profiles) : r.conceptUri \notin Range(rated.items)})

\* bug: the uris already suggested are not excluded
user_profiles_prefiltered(expanded, rated, last_rating) ==
    LET rated_conceptUri == rated.items[Len(rated.items)]
        relevant_ids ==
            {r.user_id : r \in {x \in Range(expanded) :
                x.conceptUri = rated_conceptUri /\ x.single_job_rating = last_rating}}
    IN SelectRows(expanded, {r \in Range(expanded) :
            r.user_id \in relevant_ids /\ r.single_job_rating = "1"})

\* the peers' rows: same rating of the same uri -> their ids -> every row
\* of those peers rated 1 -> minus the uris already suggested
user_profiles_filtered(expanded, rated, last_rating) ==
    LET rated_conceptUri == rated.items[Len(rated.items)]
        relevant_ids ==
            {r.user_id : r \in {x \in Range(expanded) :
                x.conceptUri = rated_conceptUri /\ x.single_job_rating = last_rating}}
        prefiltered ==
            SelectRows(expanded, {r \in Range(expanded) :
                r.user_id \in relevant_ids /\ r.single_job_rating = "1"})
    IN SelectRows(prefiltered,
            {r \in Range(prefiltered) : r.conceptUri \notin Range(rated.items)})

\* bug: a peer must share every preference
is_preference_matched_all(num_prefs, prefs) ==
    \A i \in 1..Len(prefs) : prefs[i] \in num_prefs

is_preference_matched(num_prefs, prefs) ==
    \E i \in 1..Len(prefs) : prefs[i] \in num_prefs

is_preference_not_matched(num_prefs, prefs) ==
    \A i \in 1..Len(prefs) : prefs[i] \notin num_prefs

filter_by_rating(profiles, peers, prefs, history, rated, ratings) ==
    LET df_user_profiles_expanded == expand_rows(peers)
    IN IF is_nan_or_empty(rated) \/ is_nan_or_empty(ratings)
       THEN history_then_preferences(profiles, prefs, history)
       ELSE LET user_profile_last_rating == ratings.items[Len(ratings.items)]
            IN IF user_profile_last_rating \in {"-1", "1"}
               THEN IF df_user_profiles_expanded = <<>>
                    THEN Raise("KeyError")     \* a frame of no rows has no columns
                    ELSE LET filtered == user_profiles_filtered(
                                 df_user_profiles_expanded, rated,
                                 user_profile_last_rating)
                         IN IF filtered = <<>>
                            THEN history_then_preferences(
                                     transformed_profiles_filtered(profiles, rated),
                                     prefs, history)
                            ELSE IF prefs = None
                            THEN Raise("TypeError")   \* for pref in None
                            ELSE Ok(<<
                                BucketRows(SelectRows(filtered,
                                    {r \in Range(filtered) : is_preference_matched(
                                        PeerInterests(r.user_id), prefs.items)})),
                                BucketRows(SelectRows(filtered,
                                    {r \in Range(filtered) : is_preference_not_matched(
                                        PeerInterests(r.user_id), prefs.items)})) >>)
               ELSE history_then_preferences(
                        transformed_profiles_filtered(profiles, rated),
                        prefs, history)

----------------------------------------------------------------------------
(* Orchestrator, bucket selection: RecommenderPipeline.match_user_profile *)

\* the bucket handed to calculate_distances, given what filter_by_rating
\* returned.  In the first branch filtered_profiles is rebound to bucket 0
\* and then indexed with [1]: a DataFrame has no column 1.
select_bucket(buckets, ratings) ==
    IF is_nan_or_empty(ratings)
    THEN IF buckets[1] = <<>> THEN Raise("KeyError") ELSE Ok(buckets[1])
    ELSE IF buckets[1] = <<>> \/ Len(ratings.items) = 0
    THEN Ok(buckets[2])
    ELSE Ok(buckets[1])


----------------------------------------------------------------------------
(* DistanceRanker: JobMatcher.calculate_distances, method "euclidean" *)

RECURSIVE ascending_orders(_, _)
\* every way to list the positions in remaining with ascending values
ascending_orders(values, remaining) ==
    IF remaining = {} THEN {<<>>}
    ELSE UNION {{<<i>> \o rest : rest \in ascending_orders(values, remaining \ {i})} :
                i \in {j \in remaining : \A n \in remaining : values[j] <= values[n]}}

\* similarities.flatten(): the (squared) distance of every row to the query
similarities(query_vector, df) ==
    [i \in 1..Len(df) |-> SqEuclidean(query_vector, RowFS(df[i]))]

\* bug: the order of the cosine branch, argsort(...)[::-1]
argsort_descending(sims) ==
    ascending_orders([i \in 1..Len(sims) |-> 0 - sims[i]], 1..Len(sims))

\* np.argsort(similarities.flatten()): default kind "quicksort", which is not
\* stable: any permutation that puts the values in ascending order
argsort(sims) == ascending_orders(sims, 1..Len(sims))

\* sorted_df = job_fs_profiles.iloc[top_indices] with the column Distance;
\* index is the label the row keeps from the input frame (its position)
sorted_df(df, sims, top_indices) ==
    [i \in 1..Len(df) |->
        [conceptUri |-> df[top_indices[i]].conceptUri,
         user_id |-> df[top_indices[i]].user_id,
         index |-> top_indices[i],
         Distance |-> sims[top_indices[i]]]]

\* every frame calculate_distances can return for a query and a bucket
calculate_distances(query_vector, df) ==
    IF df = <<>>
    THEN {Raise("ValueError")}      \* euclidean_distances: 0 samples
    ELSE LET sims == similarities(query_vector, df)
         IN {Ok(sorted_df(df, sims, top_indices)) : top_indices \in argsort(sims)}

----------------------------------------------------------------------------
(* ZoneCalculator: JobMatcher.zone_calculator.  FS values are in            *)
(* hundredths here (0.2 is 20).                                             *)

learning_factor == 30
panic_tolerance == 10
PanicLimit == 20
LearningMarker == 200
PanicMarker == -100

\* bug: the first branch leaves arr[i] as it is
RECURSIVE zone_clamp_keep(_, _, _)
zone_clamp_keep(arr, user, i) ==
    IF i > Len(user) THEN arr
    ELSE IF arr[i] <= user[i]
    THEN zone_clamp_keep(arr, user, i + 1)
    ELSE IF user[i] < PanicLimit /\ arr[i] > user[i] + panic_tolerance
    THEN [k \in 1..Len(user) |-> PanicMarker]
    ELSE IF arr[i] >= user[i] + learning_factor
    THEN zone_clamp_keep([arr EXCEPT ![i] = LearningMarker], user, i + 1)
    ELSE zone_clamp_keep([arr EXCEPT ![i] = user[i]], user, i + 1)

\* bug: no break after the panic branch, the later dimensions are processed
RECURSIVE zone_clamp_no_break(_, _, _)
zone_clamp_no_break(arr, user, i) ==
    IF i > Len(user) THEN arr
    ELSE IF arr[i] <= user[i]
    THEN zone_clamp_no_break([arr EXCEPT ![i] = user[i]], user, i + 1)
    ELSE IF user[i] < PanicLimit /\ arr[i] > user[i] + panic_tolerance
    THEN zone_clamp_no_break([k \in 1..Len(user) |-> PanicMarker], user, i + 1)
    ELSE IF arr[i] >= user[i] + learning_factor
    THEN zone_clamp_no_break([arr EXCEPT ![i] = LearningMarker], user, i + 1)
    ELSE zone_clamp_no_break([arr EXCEPT ![i] = user[i]], user, i + 1)

RECURSIVE zone_clamp(_, _, _)
\* the loop "for i in range(base_length)" from position i on
zone_clamp(arr, user, i) ==
    IF i > Len(user) THEN arr
    ELSE IF arr[i] <= user[i]
    THEN zone_clamp([arr EXCEPT ![i] = user[i]], user, i + 1)
    ELSE IF user[i] < PanicLimit /\ arr[i] > user[i] + panic_tolerance
    THEN [k \in 1..Len(user) |-> PanicMarker]          \* arr = [-1] * n; break
    ELSE IF arr[i] >= user[i] + learning_factor
    THEN zone_clamp([arr EXCEPT ![i] = LearningMarker], user, i + 1)
    ELSE zone_clamp([arr EXCEPT ![i] = user[i]], user, i + 1)

\* scipy hamming(u, v) * len(u): the number of positions that differ
hamming_dist(u, v) == Cardinality({i \in 1..Len(u) : u[i] # v[i]})

\* (output_hamming, output_arrays) for the rows of a frame of FS arrays
zone_calculator(arrays, user_fs_profile) ==
    IF \E i \in 1..Len(arrays) : Len(arrays[i]) # Len(user_fs_profile)
    THEN Raise("ValueError")
    ELSE LET output_arrays ==
                 [i \in 1..Len(arrays) |-> zone_clamp(arrays[i], user_fs_profile, 1)]
         IN Ok(<<[i \in 1..Len(arrays) |->
                     hamming_dist(user_fs_profile, output_arrays[i])],
                 output_arrays>>)


----------------------------------------------------------------------------
(* Inputs *)

\* the pool is drawn from the first MaxPool occupations
MaxPool == 5

\* JobHistory: last_job, second_last_job, previous_job
MaxHistory == 3

RECURSIVE SubFrames(_)
\* every sub-frame (subsequence) of a frame
SubFrames(df) ==
    IF df = <<>> THEN {<<>>}
    ELSE LET rest == SubFrames(Tail(df))
         IN rest \cup {<<Head(df)>> \o t : t \in rest}

\* the rows of the transformed occupation profiles, in file order
ProfileOrder == <<"a", "e", "b", "d", "c", "f", "k", "m">>

AllProfiles == [i \in 1..Len(ProfileOrder) |-> PoolRow(ProfileOrder[i])]

Pools == SubFrames(SubSeq(AllProfiles, 1, MaxPool))

SeqsUpTo(S, n) == UNION {[1..m -> S] : m \in 0..n}

HistoryUris == {"a", "b", "e", UnknownUri}

Histories ==
    SeqsUpTo([uri : HistoryUris, liked : BOOLEAN], MaxHistory)

----------------------------------------------------------------------------
(* Specification of the HistoryFilter alone *)

InitHistory ==
    /\ pc = "call"
    /\ transformed_profiles \in Pools
    /\ job_history \in {List(h) : h \in Histories} \cup {None}
    /\ preferences = None
    /\ rated_conceptUri_list = NaN
    /\ user_profile_rating_list = NaN
    /\ user_profiles = <<>>
    /\ filtered_profiles = Ok(<<>>)
    /\ target_profile = Vec(50, 50)
    /\ candidates = <<>>
    /\ transformed_profiles_preferred = IndexedFrame(<<>>)
    /\ job_columns = "str"
    /\ process = "running"
    /\ response = NoResponse
    /\ runs = <<>>
    /\ argsort_memo = {}
    /\ ret = Ok(<<>>)

CallFilterByJobHistory ==
    /\ pc = "call"
    /\ ret' = filter_by_job_history(transformed_profiles, job_history)
    /\ pc' = "done"
    /\ UNCHANGED <<inputs, filtered_profiles, target_profile, candidates,
                   job_columns, host, repeat>>

NextHistory == CallFilterByJobHistory

SpecHistory == InitHistory /\ [][NextHistory]_vars

(* What the specification of the HistoryFilter says of a disliked uri d *)

Within30(d, uri) ==
    SqEuclidean(OccFS(d), OccFS(uri)) < 30 * 30

NarrowerOf(d, uri) ==
    /\ uri \in OccUris
    /\ IsPrefix(look_up_code(d), look_up_code(uri))
    /\ Len(look_up_code(uri)) > Len(look_up_code(d))

DislikedIn(history) == {e.uri : e \in {x \in Range(history) : ~x.liked}}

ExcludedBy(d, uri) == uri = d \/ Within30(d, uri) \/ NarrowerOf(d, uri)

HistoryReturned ==
    pc = "done" /\ ret.err = "none" /\ job_history.kind = "list"

\* C1: for every disliked uri d of the history, the pool filter_by_job_history
\* returns contains neither d, nor an occupation at Euclidean distance < 30
\* of d, nor an occupation whose code strictly extends the code of d; every
\* other member of the pool is kept, in order.
C1_DislikedSimilarNarrowerRemoved ==
    HistoryReturned =>
        ret.val = SelectRows(transformed_profiles,
            {r \in Range(transformed_profiles) :
                \A d \in DislikedIn(job_history.items) :
                    ~ExcludedBy(d, r.conceptUri)})

\* C2: with a JobHistory whose entries are all liked, filter_by_job_history
\* returns the input pool itself: same members, same order.
C2_AllLikedKeepsPool ==
    (pc = "done" /\ job_history.kind = "list"
        /\ \A e \in Range(job_history.items) : e.liked)
    => ret = Ok(transformed_profiles)

C2_Witness ==
    /\ pc = "done"
    /\ job_history.kind = "list"
    /\ Len(job_history.items) = MaxHistory
    /\ \A e \in Range(job_history.items) : e.liked
    /\ "a" \in {e.uri : e \in Range(job_history.items)}
    /\ {"a", "b"} \subseteq IndexOf(transformed_profiles)
    /\ ret.val = transformed_profiles

----------------------------------------------------------------------------
(* Specification of the RatingFilter and the bucket selection:             *)
(* RecommenderPipeline.match_user_profile up to calculate_distances        *)

MaxRatingPool == 4
MaxLog == 2
MaxPeers == 3

RatingPools == SubFrames(SubSeq(AllProfiles, 1, MaxRatingPool))

RatingHistories ==
    {List(h) : h \in SeqsUpTo([uri : {"a", "e"}, liked : BOOLEAN], 1)}

\* lists of sector numbers in ascending order
PreferenceLists == {<<>>, <<0>>, <<1>>, <<0, 1>>}

PreferenceValues == {None} \cup {List(p) : p \in PreferenceLists}

LogUris == {"a", "b"}
Ratings == {"-1", "0", "1"}

\* RatingLogs of a length: only the last rating is ever read, the earlier
\* ones are 1
RatingLists(n) ==
    IF n = 0 THEN {<<>>}
    ELSE {[i \in 1..n |-> IF i = n THEN r ELSE "1"] : r \in Ratings}

\* (RecommendationLog, RatingLog): aligned lists, or nan for either
Logs ==
    UNION {{<<List(u), List(r)>> : u \in [1..n -> LogUris], r \in RatingLists(n)}
              : n \in 0..MaxLog}
    \cup {<<NaN, NaN>>}
    \cup UNION {{<<List(u), NaN>> : u \in [1..n -> LogUris]} : n \in 1..MaxLog}
    \cup UNION {{<<NaN, List(r)>> : r \in RatingLists(n)} : n \in 1..MaxLog}

PeerCorpora == SubFrames(SubSeq(reference_user_profiles, 1, MaxPeers))

InitRating ==
    /\ pc = "call"
    /\ transformed_profiles \in RatingPools
    /\ job_history \in RatingHistories
    /\ preferences \in PreferenceValues
    /\ \E log \in Logs :
          /\ rated_conceptUri_list = log[1]
          /\ user_profile_rating_list = log[2]
    /\ user_profiles \in PeerCorpora
    /\ filtered_profiles = Ok(<<>>)
    /\ target_profile = Vec(50, 50)
    /\ candidates = <<>>
    /\ transformed_profiles_preferred = IndexedFrame(<<>>)
    /\ job_columns = "str"
    /\ process = "running"
    /\ response = NoResponse
    /\ runs = <<>>
    /\ argsort_memo = {}
    /\ ret = Ok(<<>>)

\* match_user_profile: filter_by_rating, then the selection of the bucket
CallMatchUserProfile ==
    /\ pc = "call"
    /\ ret' = filter_by_rating(transformed_profiles,
                               df_cleaned(user_profiles, job_columns), preferences,
                               job_history, rated_conceptUri_list,
                               user_profile_rating_list)
    /\ filtered_profiles' =
          IF ret'.err # "none" THEN ret'
          ELSE select_bucket(ret'.val, user_profile_rating_list)
    /\ job_columns' = "list"
    /\ pc' = "done"
    /\ UNCHANGED <<inputs, target_profile, candidates, host, repeat>>

NextRating == CallMatchUserProfile

SpecRating == InitRating /\ [][NextRating]_vars

(* What the specification of the RatingFilter says *)

Returned == pc = "done" /\ ret.err = "none"

Absent(log) == log = NaN \/ log = List(<<>>)

NoSignal == Absent(rated_conceptUri_list) \/ Absent(user_profile_rating_list)

LastUri == rated_conceptUri_list.items[Len(rated_conceptUri_list.items)]
LastRating == user_profile_rating_list.items[Len(user_profile_rating_list.items)]

Decisive == ~NoSignal /\ LastRating \in {"1", "-1"}

Shown == Range(rated_conceptUri_list.items)

\* the peers who gave the rating LastRating to the uri LastUri
SameRatingPeers ==
    {p \in Range(user_profiles) :
        \E i \in 1..Len(p.log) : p.log[i] = [uri |-> LastUri, rating |-> LastRating]}

\* the occupations those peers rated +1, minus the uris already shown
PeerSourced ==
    {e.uri : e \in UNION {{x \in Range(p.log) : x.rating = "1"} : p \in SameRatingPeers}}
        \ Shown

\* PreferenceFilter of HistoryFilter of a pool: the bucket, when both return
PreferenceOfHistory(pool) ==
    filter_by_preferences(
        filter_by_job_history(pool, job_history).val, preferences).val[1]

PoolWithoutShown ==
    SelectRows(transformed_profiles,
        {r \in Range(transformed_profiles) : r.conceptUri \notin Shown})

\* C3: no-signal path.  When the RecommendationLog or the RatingLog is empty
\* or nan, the two buckets filter_by_rating returns are identical and equal
\* PreferenceFilter(HistoryFilter(full pool)).
C3_NoSignalBuckets ==
    (Returned /\ NoSignal) =>
        /\ ret.val[1] = ret.val[2]
        /\ ret.val[1] = PreferenceOfHistory(transformed_profiles)

C3_Witness ==
    /\ Returned /\ NoSignal
    /\ user_profile_rating_list # NaN
    /\ DislikedIn(job_history.items) # {}
    /\ preferences = List(<<1>>)
    /\ ret.val[1] # <<>>
    /\ Len(ret.val[1]) + 1 < Len(transformed_profiles)

\* C4 as stated: decisive rating, empty peer-sourced set: the buckets are those
\* of the no-signal path on the FULL pool.
C4_FallbackOnFullPool ==
    (Returned /\ Decisive /\ PeerSourced = {}) =>
        /\ ret.val[1] = ret.val[2]
        /\ ret.val[1] = PreferenceOfHistory(transformed_profiles)

\* C4 as amended: decisive rating, empty peer-sourced set: the buckets are
\* those of the skip path, PreferenceFilter(HistoryFilter(pool minus the uris
\* already shown)).
C4_FallbackOnUnshownPool ==
    (Returned /\ Decisive /\ PeerSourced = {}) =>
        /\ ret.val[1] = ret.val[2]
        /\ ret.val[1] = PreferenceOfHistory(PoolWithoutShown)

C4_Witness ==
    /\ Returned /\ Decisive /\ PeerSourced = {}
    /\ SameRatingPeers # {}
    /\ DislikedIn(job_history.items) # {}
    /\ ret.val[1] # <<>>
    /\ PreferenceOfHistory(transformed_profiles) # ret.val[1]

\* C5: decisive rating, non-empty peer-sourced set: every peer-sourced
\* occupation is in exactly one of the two returned buckets, and the buckets
\* hold nothing else; none is dropped.
C5_PeerSetPartitioned ==
    (pc = "done" /\ Decisive /\ PeerSourced # {}) =>
        /\ ret.err = "none"
        /\ IndexOf(ret.val[1]) \cup IndexOf(ret.val[2]) = PeerSourced
        /\ IndexOf(ret.val[1]) \cap IndexOf(ret.val[2]) = {}

\* C10: the bucket handed to calculate_distances is the PreferredBucket when
\* that is non-empty and the AlternateBucket when it is empty, on every path
\* of filter_by_rating.
C10_PreferredUnlessEmpty ==
    Returned =>
        filtered_profiles =
            Ok(IF ret.val[1] # <<>> THEN ret.val[1] ELSE ret.val[2])

----------------------------------------------------------------------------
(* Specification of the DistanceRanker alone *)

MaxBucket == 4

UserVectors == {Vec(50, 50), Vec(60, 50), Vec(50, 30)}

\* the rows a bucket is made of: occupation rows and a peer's row
BucketRowValues ==
    {PoolRow(ProfileOrder[i]) : i \in 1..6}
        \cup {[conceptUri |-> "b", user_id |-> "p2"]}

\* frames of distinct rows, in any order
RankBuckets ==
    {b \in SeqsUpTo(BucketRowValues, MaxBucket) :
        \A i, j \in 1..Len(b) : i # j => b[i] # b[j]}

InitRank ==
    /\ pc = "call"
    /\ transformed_profiles = <<>>
    /\ job_history = List(<<>>)
    /\ preferences = None
    /\ rated_conceptUri_list = NaN
    /\ user_profile_rating_list = NaN
    /\ user_profiles = <<>>
    /\ filtered_profiles = Ok(<<>>)
    /\ target_profile \in UserVectors
    /\ candidates \in RankBuckets
    /\ transformed_profiles_preferred = IndexedFrame(<<>>)
    /\ job_columns = "str"
    /\ process = "running"
    /\ response = NoResponse
    /\ runs = <<>>
    /\ argsort_memo = {}
    /\ ret = Ok(<<>>)

CallCalculateDistances ==
    /\ pc = "call"
    /\ ret' \in calculate_distances(target_profile, candidates)
    /\ pc' = "done"
    /\ UNCHANGED <<inputs, filtered_profiles, target_profile, candidates,
                   job_columns, host, repeat>>

NextRank == CallCalculateDistances

SpecRank == InitRank /\ [][NextRank]_vars

\* the distance of a row of the input bucket to the user, squared
UserDistance(row) == SqEuclidean(target_profile, RowFS(row))

\* the position in the output of the row that was at position i of the input
RankOf(i) == CHOOSE k \in 1..Len(ret.val) : ret.val[k].index = i

\* C6 as stated: a candidate nearer to the user is placed before one farther
\* away, and candidates at equal distance keep their input order.
C6_AscendingAndStable ==
    Returned =>
        \A i, j \in 1..Len(candidates) :
            /\ UserDistance(candidates[i]) < UserDistance(candidates[j])
                  => RankOf(i) < RankOf(j)
            /\ (UserDistance(candidates[i]) = UserDistance(candidates[j]) /\ i < j)
                  => RankOf(i) < RankOf(j)

\* C6 as amended: the output holds the rows of the bucket, each once, with
\* its distance, and a candidate nearer to the user is placed before one
\* farther away; the order among equal distances is not fixed.
C6_Ascending ==
    Returned =>
        /\ Len(ret.val) = Len(candidates)
        /\ \A i \in 1..Len(candidates) :
              \E k \in 1..Len(ret.val) :
                  /\ ret.val[k].index = i
                  /\ ret.val[k].conceptUri = candidates[i].conceptUri
                  /\ ret.val[k].Distance = UserDistance(candidates[i])
        /\ \A i, j \in 1..Len(candidates) :
              UserDistance(candidates[i]) < UserDistance(candidates[j])
                  => RankOf(i) < RankOf(j)

C6_Witness ==
    /\ Returned
    /\ Len(candidates) = MaxBucket
    /\ \E i, j \in 1..Len(candidates) :
          /\ i < j
          /\ UserDistance(candidates[i]) > UserDistance(candidates[j])
          /\ RankOf(j) < RankOf(i)
    /\ \E i, j \in 1..Len(candidates) :
          /\ i < j
          /\ UserDistance(candidates[i]) = UserDistance(candidates[j])
          /\ RankOf(j) < RankOf(i)

----------------------------------------------------------------------------
(* Specification of the ZoneCalculator alone *)

MaxZoneRows == 2

ZoneValues == {0, 10, 30, 60}

\* FS arrays in hundredths that vary in FS1 and FS2
ZoneVectors == {Vec(x, y) : x, y \in ZoneValues}

InitZone ==
    /\ pc = "call"
    /\ transformed_profiles = <<>>
    /\ job_history = List(<<>>)
    /\ preferences = None
    /\ rated_conceptUri_list = NaN
    /\ user_profile_rating_list = NaN
    /\ user_profiles = <<>>
    /\ filtered_profiles = Ok(<<>>)
    /\ target_profile \in ZoneVectors
    /\ candidates \in SeqsUpTo(ZoneVectors, MaxZoneRows)
    /\ transformed_profiles_preferred = IndexedFrame(<<>>)
    /\ job_columns = "str"
    /\ process = "running"
    /\ response = NoResponse
    /\ runs = <<>>
    /\ argsort_memo = {}
    /\ ret = Ok(<<>>)

CallZoneCalculator ==
    /\ pc = "call"
    /\ ret' = zone_calculator(candidates, target_profile)
    /\ pc' = "done"
    /\ UNCHANGED <<inputs, filtered_profiles, target_profile, candidates,
                   job_columns, host, repeat>>

NextZone == CallZoneCalculator

SpecZone == InitZone /\ [][NextZone]_vars

\* C8: a candidate whose value is at most the user's in each of the 10
\* dimensions has the fit score 0.
C8_NoGapScoresZero ==
    Returned =>
        \A k \in 1..Len(candidates) :
            (\A i \in 1..FSDim : candidates[k][i] <= target_profile[i])
                => ret.val[1][k] = 0

C8_Witness ==
    /\ Returned
    /\ \E k \in 1..Len(candidates) :
          /\ \A i \in 1..FSDim : candidates[k][i] <= target_profile[i]
          /\ candidates[k][1] < target_profile[1]
          /\ candidates[k][2] < target_profile[2]
          /\ ret.val[1][k] = 0
    /\ \E k \in 1..Len(candidates) : ret.val[1][k] > 0

----------------------------------------------------------------------------
(* ComfortZoneRefiner: JobRecommender.get_comfort_zone_recommendation and   *)
(* refine_recommendations.  Rows of the refiner's frames carry the ghost    *)
(* field origin: the position in top_jobs of the candidate they derive     *)
(* from.                                                                    *)

\* broaderRelationsOccPillar.csv: the immediate broader concept of each
\* occupation (the concept whose code is the occupation's code less its last
\* segment), and that of an ISCO group
broader_occupations == <<
    [conceptUri |-> "a", broaderUri |-> "g"],
    [conceptUri |-> "b", broaderUri |-> "a"],
    [conceptUri |-> "c", broaderUri |-> "a"],
    [conceptUri |-> "d", broaderUri |-> "a"],
    [conceptUri |-> "e", broaderUri |-> "h"],
    [conceptUri |-> "f", broaderUri |-> "e"],
    [conceptUri |-> "k", broaderUri |-> "e"],
    [conceptUri |-> "m", broaderUri |-> "b"],
    [conceptUri |-> "g", broaderUri |-> "t"]>>

\* the broaderUri cell of a row the left merge found no partner for
NaNUri == "nan"

\* broader_occupations.loc[broader_occupations["conceptUri"] == uri, "broaderUri"]
\* bug: the broaderUri of the broader occupation, two levels up
broaderUri_of_broader(uri) ==
    LET first == SelectRows(broader_occupations,
                    {r \in Range(broader_occupations) : r.conceptUri = uri})
        rows == SelectRows(broader_occupations,
                    {r \in Range(broader_occupations) :
                        \E i \in 1..Len(first) : r.conceptUri = first[i].broaderUri})
    IN [i \in 1..Len(rows) |-> rows[i].broaderUri]

broaderUri_of(uri) ==
    LET rows == SelectRows(broader_occupations,
                    {r \in Range(broader_occupations) : r.conceptUri = uri})
    IN [i \in 1..Len(rows) |-> rows[i].broaderUri]

RECURSIVE merge_broader(_, _)
\* top_jobs.merge(broader_occupations[["conceptUri", "broaderUri"]],
\*                on="conceptUri", how="left"), from row i on
merge_broader(top_jobs, i) ==
    IF i > Len(top_jobs) THEN <<>>
    ELSE LET broader == broaderUri_of(top_jobs[i].conceptUri)
             row(b) == [conceptUri |-> top_jobs[i].conceptUri,
                        user_id |-> top_jobs[i].user_id,
                        broaderUri |-> b,
                        origin |-> i]
         IN (IF broader = <<>> THEN <<row(NaNUri)>>
             ELSE [n \in 1..Len(broader) |-> row(broader[n])])
            \o merge_broader(top_jobs, i + 1)

\* bug: duplicates are looked for in the column conceptUri
drop_duplicates_conceptUri(df) ==
    SelectRows(df, {df[i] : i \in {n \in 1..Len(df) :
        \A m \in 1..(n - 1) : df[m].conceptUri # df[n].conceptUri}})

\* df.drop_duplicates(subset=["broaderUri"], keep="first"); missing values
\* count as equal to each other
drop_duplicates(df) ==
    SelectRows(df, {df[i] : i \in {n \in 1..Len(df) :
        \A m \in 1..(n - 1) : df[m].broaderUri # df[n].broaderUri}})

head_rows == 5

\* recommended_jobs.head(5)
head(df) == SubSeq(df, 1, IF Len(df) < head_rows THEN Len(df) ELSE head_rows)

max_euclidean_distance_broader == 30

\* compare_occupation_similarity: both profiles are reshaped to one column,
\* so similarities[0][0] is the distance between the first value of the job
\* profile and the first value of the broader profile
compare_occupation_similarity(job_fs_profile, broader_job_fs_profile) ==
    IF job_fs_profile = <<>>
    THEN Raise("ValueError")           \* euclidean_distances: 0 samples
    ELSE LET x == job_fs_profile[1][1]
             y == broader_job_fs_profile[1]
             euclidean_distance == IF x < y THEN y - x ELSE x - y
         IN Ok(euclidean_distance < max_euclidean_distance_broader)

RECURSIVE refine_loop(_, _, _, _, _, _)
\* the loop of refine_recommendations over the conceptUri column the frame
\* had on entry; an exception inside the try block moves on to the next uri
refine_loop(uris, i, recommended_jobs, recommended_jobs_broader_occ, preferred, pool) ==
    IF i > Len(uris)
    THEN Ok(recommended_jobs \o recommended_jobs_broader_occ)
    ELSE
    LET recom_uri == uris[i]
        job_rows == SelectRows(recommended_jobs,
                        {r \in Range(recommended_jobs) : r.conceptUri = recom_uri})
        job_fs_profile == [n \in 1..Len(job_rows) |-> RowFS(job_rows[n])]
        broader == broaderUri_of(recom_uri)
        continue == refine_loop(uris, i + 1, recommended_jobs,
                                recommended_jobs_broader_occ, preferred, pool)
    IN IF broader = <<>>
       THEN Raise("IndexError")        \* .iloc[0] of no rows, outside the try
       ELSE
       LET recom_broader_uri == broader[1]
       IN IF recom_broader_uri \notin IndexOf(pool)
          THEN continue                \* .loc: KeyError
          ELSE
          LET close == compare_occupation_similarity(
                           job_fs_profile, OccFS(recom_broader_uri))
          IN IF close.err # "none" \/ ~close.val
             THEN continue
             ELSE IF ~preferred.conceptUri_column
             THEN continue             \* preferred["conceptUri"]: KeyError
             ELSE IF broaderUri_of(recom_broader_uri) = <<>>
             THEN continue             \* .iloc[0] of no rows, inside the try
             ELSE
             LET concept == SelectRows(preferred.rows,
                     {r \in Range(preferred.rows) : r.conceptUri = recom_broader_uri})
                 broader_fs_profile_recom_concept ==
                     [n \in 1..Len(concept) |->
                         [conceptUri |-> concept[n].conceptUri,
                          user_id |-> concept[n].user_id,
                          broaderUri |-> broaderUri_of(recom_broader_uri)[1],
                          origin |-> job_rows[1].origin]]
             IN refine_loop(uris, i + 1,
                    SelectRows(recommended_jobs,
                        {r \in Range(recommended_jobs) : r.conceptUri # recom_uri}),
                    recommended_jobs_broader_occ \o broader_fs_profile_recom_concept,
                    preferred, pool)

refine_recommendations(recommended_jobs, preferred, occ_fs_profile_scaled_df) ==
    refine_loop([n \in 1..Len(recommended_jobs) |-> recommended_jobs[n].conceptUri],
                1, recommended_jobs, <<>>, preferred, occ_fs_profile_scaled_df)

\* final_recom.drop("broaderUri", axis=1)
drop_broaderUri(df) ==
    [n \in 1..Len(df) |-> [conceptUri |-> df[n].conceptUri,
                           user_id |-> df[n].user_id,
                           origin |-> df[n].origin]]

get_comfort_zone_recommendation(top_jobs, preferred, profiles) ==
    LET recommended_jobs == drop_duplicates(merge_broader(top_jobs, 1))
        final_recom == refine_recommendations(head(recommended_jobs),
                                              preferred, profiles)
    IN IF final_recom.err # "none" THEN final_recom
       ELSE Ok(drop_broaderUri(final_recom.val))

----------------------------------------------------------------------------
(* Specification of the ComfortZoneRefiner alone *)

MaxTop == 4

\* rows of a ranked frame: pool occupations and two peer-sourced rows
TopJobValues ==
    {PoolRow(uri) : uri \in OccUris}
        \cup {[conceptUri |-> "b", user_id |-> "p2"],
              [conceptUri |-> UnknownUri, user_id |-> "p3"]}

TopJobs ==
    {t \in SeqsUpTo(TopJobValues, MaxTop) :
        \A i, j \in 1..Len(t) : i # j => t[i] # t[j]}

PreferredFrames ==
    {IndexedFrame(AllProfiles), MergedFrame(AllProfiles),
     MergedFrame(SelectRows(AllProfiles, {PoolRow("a"), PoolRow("b"), PoolRow("f")}))}

DetailedPools ==
    {AllProfiles, SelectRows(AllProfiles, Range(AllProfiles) \ {PoolRow("a")})}

InitRefine ==
    /\ pc = "call"
    /\ transformed_profiles \in DetailedPools
    /\ job_history = List(<<>>)
    /\ preferences = None
    /\ rated_conceptUri_list = NaN
    /\ user_profile_rating_list = NaN
    /\ user_profiles = <<>>
    /\ filtered_profiles = Ok(<<>>)
    /\ target_profile = Vec(50, 50)
    /\ candidates \in TopJobs
    /\ transformed_profiles_preferred \in PreferredFrames
    /\ job_columns = "str"
    /\ process = "running"
    /\ response = NoResponse
    /\ runs = <<>>
    /\ argsort_memo = {}
    /\ ret = Ok(<<>>)

CallGetComfortZoneRecommendation ==
    /\ pc = "call"
    /\ ret' = get_comfort_zone_recommendation(
                  candidates, transformed_profiles_preferred, transformed_profiles)
    /\ pc' = "done"
    /\ UNCHANGED <<inputs, filtered_profiles, target_profile, candidates,
                   job_columns, host, repeat>>

NextRefine == CallGetComfortZoneRecommendation

SpecRefine == InitRefine /\ [][NextRefine]_vars

\* the immediate broaderUri of a candidate, read off the taxonomy
ImmediateBroader(row) ==
    IF \E r \in Range(broader_occupations) : r.conceptUri = row.conceptUri
    THEN (CHOOSE r \in Range(broader_occupations) :
              r.conceptUri = row.conceptUri).broaderUri
    ELSE NaNUri

\* C7: no two entries of the result derive from candidates of top_jobs that
\* share their immediate broaderUri, and the candidate an entry derives from
\* is the highest-ranked one of its broader group.
C7_OnePerBroaderGroup ==
    Returned =>
        /\ \A m, n \in 1..Len(ret.val) :
              m # n => ImmediateBroader(candidates[ret.val[m].origin])
                          # ImmediateBroader(candidates[ret.val[n].origin])
        /\ \A m \in 1..Len(ret.val) :
              \A j \in 1..(ret.val[m].origin - 1) :
                  ImmediateBroader(candidates[j])
                      # ImmediateBroader(candidates[ret.val[m].origin])

C7_Witness ==
    /\ Returned
    /\ Len(candidates) = MaxTop
    /\ \E i, j \in 1..Len(candidates) :
          /\ i < j
          /\ candidates[i].conceptUri # candidates[j].conceptUri
          /\ ImmediateBroader(candidates[i]) = ImmediateBroader(candidates[j])
          /\ \E m \in 1..Len(ret.val) : ret.val[m].origin = i
    /\ \E m \in 1..Len(ret.val) :
          ret.val[m].conceptUri # candidates[ret.val[m].origin].conceptUri
    /\ Len(ret.val) >= 2

----------------------------------------------------------------------------
(* The service: api/app.py recommendation_detail around                     *)
(* RecommenderPipeline.run                                                  *)

\* the values of a job slot of the request body: absent, or {uri, liked}
NoJob == [uri |-> NoUri, liked |-> TRUE]

JobSlots ==
    {NoJob, [uri |-> "a", liked |-> FALSE], [uri |-> "f", liked |-> FALSE],
     [uri |-> "b", liked |-> TRUE]}

\* job_history = [job for job in [last_job, second_last_job, previous_job]
\*                if job is not None]
job_history_of(slots) ==
    List(SelectSeq(slots, LAMBDA job : job # NoJob))

\* ",".join(cells) if cells else "NaN" in recommendation_detail, then
\* x.split(",") in extract_user_rating: the string "NaN" is not a missing
\* value, it splits to the list ["NaN"]
extract_user_rating(cells) ==
    IF cells = <<>> THEN List(<<"NaN">>) ELSE List(cells)

RequestProfiles == {Vec(50, 50), Vec(60, 50)}
RequestPreferences == {None, List(<<1>>)}
RequestRecommendations == SeqsUpTo(LogUris, MaxLog)
RequestRatings == {<<>>} \cup UNION {RatingLists(n) : n \in 1..MaxLog}

\* the locals of the request handler when no request is being served
NoRequest ==
    /\ job_history' = List(<<>>)
    /\ preferences' = None
    /\ rated_conceptUri_list' = NaN
    /\ user_profile_rating_list' = NaN
    /\ target_profile' = Vec(50, 50)
    /\ filtered_profiles' = Ok(<<>>)
    /\ candidates' = <<>>
    /\ transformed_profiles_preferred' = IndexedFrame(<<>>)
    /\ ret' = Ok(<<>>)

\* the module-level data of app.py
shared == <<transformed_profiles, user_profiles, job_columns>>

Init ==
    /\ pc = "idle"
    /\ transformed_profiles = SubSeq(AllProfiles, 1, MaxPool)
    /\ user_profiles = SubSeq(reference_user_profiles, 1, MaxPeers)
    /\ job_history = List(<<>>)
    /\ preferences = None
    /\ rated_conceptUri_list = NaN
    /\ user_profile_rating_list = NaN
    /\ filtered_profiles = Ok(<<>>)
    /\ target_profile = Vec(50, 50)
    /\ candidates = <<>>
    /\ transformed_profiles_preferred = IndexedFrame(<<>>)
    /\ job_columns = "str"
    /\ process = "running"
    /\ response = NoResponse
    /\ runs = <<>>
    /\ argsort_memo = {}
    /\ ret = Ok(<<>>)

\* recommendation_detail up to the call of run
ReceiveRequest ==
    /\ pc = "idle" /\ process = "running"
    /\ target_profile' \in RequestProfiles
    /\ preferences' \in RequestPreferences
    /\ \E slots \in [1..MaxHistory -> JobSlots] : job_history' = job_history_of(slots)
    /\ \E job_recommendations \in RequestRecommendations :
          rated_conceptUri_list' = extract_user_rating(job_recommendations)
    /\ \E job_ratings \in RequestRatings :
          user_profile_rating_list' = extract_user_rating(job_ratings)
    /\ pc' = "match"
    /\ UNCHANGED <<transformed_profiles, user_profiles, filtered_profiles, candidates,
                   transformed_profiles_preferred, job_columns, host, repeat, ret>>

\* run, step 1: match_user_profile
RunMatcher ==
    /\ pc = "match"
    /\ LET buckets == filter_by_rating(transformed_profiles,
                          df_cleaned(user_profiles, job_columns),
                          preferences, job_history, rated_conceptUri_list,
                          user_profile_rating_list)
           selected == IF buckets.err # "none" THEN buckets
                       ELSE select_bucket(buckets.val, user_profile_rating_list)
       IN /\ filtered_profiles' = selected
          /\ ret' \in (IF selected.err # "none" THEN {selected}
                       ELSE calculate_distances(target_profile, selected.val))
    /\ job_columns' = "list"           \* expand_user_profiles assigns the columns
    /\ candidates' = ret'.val
    /\ transformed_profiles_preferred' =
          IF ret'.err = "none" THEN IndexedFrame(transformed_profiles)
          ELSE transformed_profiles_preferred
    /\ pc' = IF ret'.err = "none" THEN "recommend" ELSE "except"
    /\ UNCHANGED <<transformed_profiles, user_profiles, job_history, preferences,
                   rated_conceptUri_list, user_profile_rating_list,
                   target_profile, host, repeat>>

\* run, step 2: recommend_occupation with comfort_zone=True
RunRecommender ==
    /\ pc = "recommend"
    /\ ret' = get_comfort_zone_recommendation(
                  candidates, transformed_profiles_preferred, transformed_profiles)
    /\ pc' = IF ret'.err = "none" THEN "respond" ELSE "except"
    /\ UNCHANGED <<inputs, filtered_profiles, target_profile, candidates,
                   job_columns, host, repeat>>

\* run: except Exception: print(...); sys.exit().  SystemExit is not an
\* Exception, so neither Flask nor the server turns it into a response; a
\* server that handles the request in the main thread exits, one that
\* handles it in a worker thread loses that thread.  The client's connection
\* is closed without a response either way.
RunExcept ==
    /\ pc = "except"
    /\ response' = [status |-> "dropped", uri |-> NoUri]
    /\ \/ process' = "exited" /\ pc' = "exited"
       \/ process' = "running" /\ pc' = "idle"
    /\ NoRequest
    /\ UNCHANGED <<shared, repeat>>

\* recommendation_detail after run: the first recommendation's profile
Respond ==
    /\ pc = "respond"
    /\ LET uri == ret.val[1].conceptUri
       IN response' =
              IF ret.val = <<>> \/ uri \notin IndexOf(transformed_profiles)
              THEN [status |-> "500", uri |-> NoUri]    \* IndexError / KeyError
              ELSE IF uri \notin TaxonomyUris
              THEN [status |-> "200", uri |-> NoUri]    \* occupation_detail: None
              ELSE [status |-> "200", uri |-> uri]
    /\ pc' = "idle"
    /\ NoRequest
    /\ UNCHANGED <<shared, process, repeat>>

Next ==
    \/ ReceiveRequest
    \/ RunMatcher
    \/ RunRecommender
    \/ RunExcept
    \/ Respond

Spec == Init /\ [][Next]_vars

\* C9: when a stage of run raises, the client of that request gets a failure
\* response, the process keeps running and the shared data stay as they were.
C9_ErrorAbortsOnlyRequest ==
    [][pc = "except" =>
          /\ response'.status = "error"
          /\ process' = "running"
          /\ shared' = shared]_vars

\* C11: a run of the pipeline leaves the candidate pool, the PeerCorpus (rows
\* and cells) and the user's profile as they were before the run.
C11_SharedInputsUnchanged ==
    [][(pc = "match" \/ pc = "recommend") =>
          (shared' = shared /\ target_profile' = target_profile)]_vars

----------------------------------------------------------------------------
(* Two runs of RecommenderPipeline.run on the same inputs in one process.   *)
(* np.argsort is a function of the array it is given: a run that sorts an   *)
(* array sorted before gets the order it got before.                        *)

\* the orders argsort_memo allows for an array
memo_orders(sims) ==
    IF \E m \in argsort_memo : m[1] = sims
    THEN {m[2] : m \in {x \in argsort_memo : x[1] = sims}}
    ELSE argsort(sims)

\* top_indices of a frame calculate_distances returned
top_indices_of(sorted) == [i \in 1..Len(sorted) |-> sorted[i].index]

\* match_user_profile and recommend_occupation on the inputs the state holds,
\* for a frame calculate_distances may return: what run returns or raises
run_with(matches) ==
    IF matches.err # "none" THEN matches
    ELSE get_comfort_zone_recommendation(
             matches.val, IndexedFrame(transformed_profiles), transformed_profiles)

\* the pools of a repeated run: at most one profile missing
RepeatPools == {df \in RatingPools : Len(df) >= MaxRatingPool - 1}

RepeatHistories == {List(<<>>), List(<<[uri |-> "b", liked |-> FALSE]>>)}

RepeatPreferences == RequestPreferences \cup {List(<<1, 2>>)}

\* the logs a request carries: aligned lists, or nan for both
RepeatLogs == {log \in Logs : log[1].kind = log[2].kind}

InitRepeat ==
    /\ pc = "first"
    /\ transformed_profiles \in RepeatPools
    /\ job_history \in RepeatHistories
    /\ preferences \in RepeatPreferences
    /\ \E log \in RepeatLogs :
          /\ rated_conceptUri_list = log[1]
          /\ user_profile_rating_list = log[2]
    /\ user_profiles \in PeerCorpora
    /\ filtered_profiles = Ok(<<>>)
    /\ target_profile = Vec(50, 50)
    /\ candidates = <<>>
    /\ transformed_profiles_preferred = IndexedFrame(<<>>)
    /\ job_columns = "str"
    /\ process = "running"
    /\ response = NoResponse
    /\ runs = <<>>
    /\ argsort_memo = {}
    /\ ret = Ok(<<>>)

\* one call of run: filter_by_rating, the selection of the bucket,
\* calculate_distances and get_comfort_zone_recommendation; an exception ends
\* in sys.exit()
RunPipeline ==
    /\ pc \in {"first", "second"}
    /\ LET buckets == filter_by_rating(transformed_profiles,
                          df_cleaned(user_profiles, job_columns),
                          preferences, job_history, rated_conceptUri_list,
                          user_profile_rating_list)
           selected == IF buckets.err # "none" THEN buckets
                       ELSE select_bucket(buckets.val, user_profile_rating_list)
           sims == similarities(target_profile, selected.val)
       IN /\ filtered_profiles' = selected
          /\ \E matches \in (IF selected.err # "none" THEN {selected}
                             ELSE calculate_distances(target_profile, selected.val)) :
                /\ matches.err = "none" => top_indices_of(matches.val) \in memo_orders(sims)
                /\ candidates' = matches.val
                /\ argsort_memo' =
                      IF matches.err = "none"
                      THEN argsort_memo \cup {<<sims, top_indices_of(matches.val)>>}
                      ELSE argsort_memo
                /\ ret' = run_with(matches)
    /\ runs' = Append(runs, ret')
    /\ job_columns' = "list"
    /\ \/ /\ ret'.err = "none"
          /\ process' = process
          /\ pc' = IF pc = "first" THEN "second" ELSE "done"
       \/ /\ ret'.err # "none"        \* sys.exit(): the thread or the process ends
          /\ \/ process' = "exited" /\ pc' = "exited"
             \/ process' = process /\ pc' = IF pc = "first" THEN "second" ELSE "done"
    /\ UNCHANGED <<inputs, target_profile, response>>

NextRepeat == RunPipeline

SpecRepeat == InitRepeat /\ [][NextRepeat]_vars

\* C12: the second of two runs on identical inputs in the same process
\* returns the same ordered result as the first (or raises as the first did).
C12_SecondRunSameResult ==
    Len(runs) = 2 => runs[2] = runs[1]

C12_Witness ==
    /\ Len(runs) = 2
    /\ runs[1].err = "none"
    /\ runs[1].val # <<>>
    /\ Decisive /\ PeerSourced # {}
    /\ Len(candidates) >= 2
    /\ \E p \in Range(user_profiles) : p.log # <<>>

\* C13: when the filters leave the selected bucket empty while the candidate
\* pool is not empty, the run still returns a recommendation.
C13_EmptyBucketStillRecommends ==
    (Len(runs) >= 1 /\ transformed_profiles # <<>> /\ filtered_profiles = Ok(<<>>))
        => (runs[1].err = "none" /\ runs[1].val # <<>>)

\* the most recent rating is a skip
Skipped == ~NoSignal /\ LastRating = "0"

\* C14: skip path: both buckets are PreferenceFilter of HistoryFilter of the
\* pool without the uris of the RecommendationLog, and no such uri is in
\* either bucket.
C14_SkipBuckets ==
    (Returned /\ Skipped) =>
        /\ ret.val[1] = ret.val[2]
        /\ ret.val[1] = PreferenceOfHistory(PoolWithoutShown)
        /\ IndexOf(ret.val[1]) \cap Shown = {}
        /\ IndexOf(ret.val[2]) \cap Shown = {}

C14_Witness ==
    /\ Returned /\ Skipped
    /\ Len(rated_conceptUri_list.items) = MaxLog
    /\ Shown \cap IndexOf(transformed_profiles) # {}
    /\ DislikedIn(job_history.items) # {}
    /\ preferences = List(<<1>>)
    /\ ret.val[1] # <<>>
    /\ Len(ret.val[1]) + 2 < Len(transformed_profiles)

\* the occupations a peer who gave LastRating to LastUri rated +1 at a later
\* position of the log than that rating, minus the uris already shown
LaterLiked ==
    UNION {{q.log[k].uri : k \in {j \in 1..Len(q.log) :
                /\ q.log[j].rating = "1"
                /\ \E i \in 1..(j - 1) :
                      q.log[i] = [uri |-> LastUri, rating |-> LastRating]}}
            : q \in SameRatingPeers}
        \ Shown

\* C15 as stated: decisive path: every occupation of the buckets was rated +1
\* by a matching peer at a later position than that peer's rating of u.
C15_OnlyLaterRatingsCollected ==
    (Returned /\ Decisive /\ PeerSourced # {}) =>
        IndexOf(ret.val[1]) \cup IndexOf(ret.val[2]) \subseteq LaterLiked

\* C15 as the code has it: decisive path: the occupations of the buckets are
\* those a matching peer rated +1 at any position of the log, before or after
\* the rating of u, minus the uris already shown.
C15_AnyPositionCollected ==
    (Returned /\ Decisive /\ PeerSourced # {}) =>
        IndexOf(ret.val[1]) \cup IndexOf(ret.val[2]) = PeerSourced

C15_Witness ==
    /\ Returned /\ Decisive
    /\ PeerSourced \ LaterLiked # {}
    /\ (IndexOf(ret.val[1]) \cup IndexOf(ret.val[2])) \ LaterLiked # {}
    /\ \E p \in SameRatingPeers : \E e \in Range(p.log) : e.rating = "1" /\ e.uri \in Shown

\* the sectors of an occupation; none for a uri esco2kldb does not list
SectorsOf(uri) ==
    IF uri \in IndexOf(esco2kldb) THEN kldb_keys(uri) ELSE {}

PeerPath == Returned /\ Decisive /\ PeerSourced # {}

\* the rows the peers contribute: a liked uri not yet shown, with its peer
PeerRows ==
    {[conceptUri |-> e.uri, user_id |-> p.user_id] :
        <<p, e>> \in {<<q, x>> \in SameRatingPeers \X
                          UNION {Range(q.log) : q \in SameRatingPeers} :
                        x \in Range(q.log) /\ x.rating = "1" /\ x.uri \notin Shown}}

\* C16 as stated: decisive path: a peer-sourced occupation is in the
\* PreferredBucket exactly when its own sectors intersect the Preferences, and
\* in the AlternateBucket exactly when they do not.
C16_SplitByOccupationSectors ==
    PeerPath =>
        \A uri \in PeerSourced :
            /\ uri \in IndexOf(ret.val[1])
                  <=> SectorsOf(uri) \cap Range(preferences.items) # {}
            /\ uri \in IndexOf(ret.val[2])
                  <=> SectorsOf(uri) \cap Range(preferences.items) = {}

\* C16 as the code has it: decisive path: the row of a peer-sourced occupation
\* is in the PreferredBucket exactly when the sectors of the PEER who liked it
\* intersect the Preferences, and in the AlternateBucket exactly when they do
\* not; the buckets hold no other row.
C16_SplitByPeerInterests ==
    PeerPath =>
        /\ \A row \in PeerRows :
             /\ row \in Range(ret.val[1])
                   <=> PeerInterests(row.user_id) \cap Range(preferences.items) # {}
             /\ row \in Range(ret.val[2])
                   <=> PeerInterests(row.user_id) \cap Range(preferences.items) = {}
        /\ Range(ret.val[1]) \cup Range(ret.val[2]) = PeerRows

C16_Witness ==
    /\ PeerPath
    /\ ret.val[1] # <<>> /\ ret.val[2] # <<>>
    /\ \E row \in Range(ret.val[1]) :
          SectorsOf(row.conceptUri) \cap Range(preferences.items) = {}
    /\ Len(preferences.items) = 2

\* a run of the pipeline has ranked a bucket
Ranked == Len(runs) >= 1 /\ filtered_profiles.err = "none" /\ candidates # <<>>

\* C17 as stated: in every path the Distance of a ranked candidate is the
\* (squared) distance between the user's vector and the vector of the
\* candidate occupation itself.
C17_DistanceToOccupation ==
    Ranked =>
        \A i \in 1..Len(candidates) :
            /\ candidates[i].conceptUri \in OccUris
            /\ candidates[i].Distance =
                  SqEuclidean(target_profile, OccFS(candidates[i].conceptUri))

\* C17 as the code has it: the Distance of a ranked candidate is the distance
\* between the user's vector and the FS columns of the candidate's row: the
\* occupation's own vector for a row of the pool, the vector of the peer who
\* liked the occupation for a row of the peer path.
C17_DistanceToRowVector ==
    Ranked =>
        \A i \in 1..Len(candidates) :
            candidates[i].Distance =
                IF candidates[i].user_id = NoUser
                THEN SqEuclidean(target_profile, OccFS(candidates[i].conceptUri))
                ELSE SqEuclidean(target_profile, PeerFS(candidates[i].user_id))

C17_Witness ==
    /\ Ranked
    /\ Len(candidates) >= 2
    /\ \E i \in 1..Len(candidates) :
          /\ candidates[i].user_id # NoUser
          /\ candidates[i].conceptUri \in OccUris
          /\ candidates[i].Distance #
                SqEuclidean(target_profile, OccFS(candidates[i].conceptUri))

\* C18: the entries of the result are in the order of the candidates they
\* derive from, and the first entry derives from the highest-ranked candidate.
C18_ResultInCandidateOrder ==
    (Returned /\ pc = "done" /\ ret.val # <<>>) =>
        /\ \A m, n \in 1..Len(ret.val) :
              m < n => ret.val[m].origin <= ret.val[n].origin
        /\ ret.val[1].origin = 1

\* the candidate an entry of the result derives from
OriginOf(entry) == candidates[entry.origin]

\* the broader profile of a candidate is in the detailed pool and nearer than
\* 30 to the candidate over all the dimensions of the vector
BroaderIsClose(row) ==
    /\ ImmediateBroader(row) \in IndexOf(transformed_profiles)
    /\ SqEuclidean(RowFS(row), OccFS(ImmediateBroader(row)))
          < max_euclidean_distance_broader * max_euclidean_distance_broader

\* C19: an entry of the result is the broader profile of its candidate
\* exactly when that profile is in the detailed pool and its distance to the
\* candidate over all 10 dimensions is below 30.
C19_ReplacedIffCloseOverAllDimensions ==
    (Returned /\ pc = "done") =>
        \A m \in 1..Len(ret.val) :
            ret.val[m].conceptUri = ImmediateBroader(OriginOf(ret.val[m]))
                <=> BroaderIsClose(OriginOf(ret.val[m]))

\* the closeness test of the code between a vector and the profile of a uri
\* of the detailed pool
TestSucceeds(fs, uri) ==
    /\ uri \in IndexOf(transformed_profiles)
    /\ compare_occupation_similarity(<<fs>>, OccFS(uri)).val

RECURSIVE HighestAncestor(_, _)
\* where the ascent from a uri with a vector ends when the test is repeated
\* for as long as it succeeds
HighestAncestor(uri, fs) ==
    LET broader == ImmediateBroader([conceptUri |-> uri])
    IN IF broader # NaNUri /\ TestSucceeds(fs, broader)
       THEN HighestAncestor(broader, OccFS(broader))
       ELSE uri

\* C20 as stated: the entry of a candidate is the highest ancestor reached by
\* consecutive successful closeness tests.
C20_AscendsWhileTestSucceeds ==
    (Returned /\ pc = "done") =>
        \A n \in 1..Len(ret.val) :
            ret.val[n].conceptUri =
                HighestAncestor(OriginOf(ret.val[n]).conceptUri,
                                RowFS(OriginOf(ret.val[n])))

\* C20 as the code has it: the ascent is one level: the entry of a candidate
\* is the candidate itself or its immediate broader profile, and it is the
\* broader profile only if the test between the two succeeded; the test is
\* not repeated from the broader profile.
C20_AscendsOneLevel ==
    (Returned /\ pc = "done") =>
        \A n \in 1..Len(ret.val) :
            \/ ret.val[n].conceptUri = OriginOf(ret.val[n]).conceptUri
            \/ /\ ret.val[n].conceptUri = ImmediateBroader(OriginOf(ret.val[n]))
               /\ TestSucceeds(RowFS(OriginOf(ret.val[n])), ret.val[n].conceptUri)

C20_Witness ==
    /\ Returned /\ pc = "done"
    /\ \E n \in 1..Len(ret.val) :
          /\ ret.val[n].conceptUri # OriginOf(ret.val[n]).conceptUri
          /\ ret.val[n].conceptUri = ImmediateBroader(OriginOf(ret.val[n]))
          /\ HighestAncestor(ret.val[n].conceptUri, OccFS(ret.val[n].conceptUri))
                # ret.val[n].conceptUri

----------------------------------------------------------------------------
(* PreferenceFilter on its own: every pool, every Preferences value *)

MaxPreferences == 2

SectorCodes == 0..3

PreferenceInputs ==
    {None} \cup {List(p) : p \in SeqsUpTo(SectorCodes, MaxPreferences)}

InitPreference ==
    /\ pc = "call"
    /\ transformed_profiles \in Pools
    /\ job_history = List(<<>>)
    /\ preferences \in PreferenceInputs
    /\ rated_conceptUri_list = NaN
    /\ user_profile_rating_list = NaN
    /\ user_profiles = <<>>
    /\ filtered_profiles = Ok(<<>>)
    /\ target_profile = Vec(50, 50)
    /\ candidates = <<>>
    /\ transformed_profiles_preferred = IndexedFrame(<<>>)
    /\ job_columns = "str"
    /\ process = "running"
    /\ response = NoResponse
    /\ runs = <<>>
    /\ argsort_memo = {}
    /\ ret = Ok(<<>>)

CallFilterByPreferences ==
    /\ pc = "call"
    /\ ret' = filter_by_preferences(transformed_profiles, preferences)
    /\ pc' = "done"
    /\ UNCHANGED <<inputs, filtered_profiles, target_profile, candidates,
                   job_columns, host, repeat>>

NextPreference == CallFilterByPreferences

SpecPreference == InitPreference /\ [][NextPreference]_vars

\* the positions of the output frame that hold an occupation
PositionsOf(df, uri) == {i \in 1..Len(df) : df[i].conceptUri = uri}

NoPreferences == preferences = None \/ preferences = List(<<>>)

\* C21: with empty or absent Preferences every occupation of the input pool
\* is in the output exactly once, and the output holds nothing else.
C21_NoPreferencesKeepsPool ==
    (Returned /\ NoPreferences) =>
        /\ \A uri \in IndexOf(transformed_profiles) :
              Cardinality(PositionsOf(ret.val[1], uri)) = 1
        /\ IndexOf(ret.val[1]) = IndexOf(transformed_profiles)

C21_Witness ==
    /\ Returned
    /\ preferences = List(<<>>)
    /\ Len(transformed_profiles) = MaxPool
    /\ Len(ret.val[1]) = MaxPool

\* C22: with non-empty Preferences an occupation of the pool is kept if and
\* only if its sector set shares a code with the Preferences.
C22_KeptIffSectorShared ==
    (Returned /\ ~NoPreferences) =>
        \A uri \in IndexOf(transformed_profiles) :
            uri \in IndexOf(ret.val[1])
                <=> kldb_keys(uri) \cap Range(preferences.items) # {}

C22_Witness ==
    /\ Returned /\ ~NoPreferences
    /\ \E uri \in IndexOf(ret.val[1]) :
          /\ Cardinality(kldb_keys(uri)) >= 2
          /\ \E key \in kldb_keys(uri) :
                key \notin Range(preferences.items) /\ key < preferences.items[1]
    /\ IndexOf(ret.val[1]) # IndexOf(transformed_profiles)
    /\ Len(preferences.items) = MaxPreferences

\* C23: with an empty JobHistory, or none supplied, the pool is returned
\* unchanged and no error is raised.
C23_NoHistoryKeepsPool ==
    (pc = "done" /\ (job_history = None \/ job_history = List(<<>>)))
        => ret = Ok(transformed_profiles)

\* the dimensions at which a candidate is in the panic zone of the user: it
\* exceeds the user, the user is below 0.2 and it is above the user plus 0.1
PanicDimensions(arr) ==
    {i \in 1..FSDim :
        /\ arr[i] > target_profile[i]
        /\ target_profile[i] < PanicLimit
        /\ arr[i] > target_profile[i] + panic_tolerance}

AllPanic == [i \in 1..FSDim |-> PanicMarker]

\* C24: a candidate with a panic dimension becomes the all -1 vector, whatever
\* its later dimensions are, and no other candidate does; the score of such a
\* candidate is never lower than that of a candidate without one.
C24_PanicWholeCandidateScoresWorst ==
    (Returned /\ pc = "done") =>
        /\ \A k \in 1..Len(candidates) :
              ret.val[2][k] = AllPanic <=> PanicDimensions(candidates[k]) # {}
        /\ \A k, n \in 1..Len(candidates) :
              (PanicDimensions(candidates[k]) # {} /\ PanicDimensions(candidates[n]) = {})
                  => ret.val[1][k] >= ret.val[1][n]

C24_Witness ==
    /\ Returned /\ pc = "done"
    /\ \E k, n \in 1..Len(candidates) :
          /\ PanicDimensions(candidates[k]) = {2}
          /\ candidates[k][1] > target_profile[1]
          /\ ret.val[2][k] = AllPanic
          /\ PanicDimensions(candidates[n]) = {}
          /\ ret.val[1][n] > 0
          /\ ret.val[1][k] > ret.val[1][n]

----------------------------------------------------------------------------
(* DistanceRanker with method "cosine": the second branch of                *)
(* calculate_distances, on frames reduced to their FS arrays.  A cosine     *)
(* similarity of non-negative vectors is kept as an integer that orders as  *)
(* it does: its square, times the squared norm of the query, brought to the *)
(* common denominator of the rows of the frame.                             *)

RECURSIVE dot(_, _, _)
dot(u, v, i) == IF i > Len(u) THEN 0 ELSE u[i] * v[i] + dot(u, v, i + 1)

\* the squared norm sklearn's normalize divides by: 1 for the zero vector
norm2(v) == IF dot(v, v, 1) = 0 THEN 1 ELSE dot(v, v, 1)

RECURSIVE other_norms(_, _, _)
\* the product of the squared norms of the rows other than row i
other_norms(arrays, i, n) ==
    IF n > Len(arrays) THEN 1
    ELSE (IF n = i THEN 1 ELSE norm2(arrays[n])) * other_norms(arrays, i, n + 1)

\* cosine_similarity(query_vector_np, job_fs_profiles[...].values).flatten()
cosine_similarities(query_vector, arrays) ==
    [i \in 1..Len(arrays) |->
        dot(query_vector, arrays[i], 1) * dot(query_vector, arrays[i], 1)
            * other_norms(arrays, i, 1)]

\* bug: the order is not reversed
argsort_not_reversed(sims) == argsort(sims)

\* np.argsort(similarities.flatten())[::-1]
argsort_reversed(sims) ==
    {[i \in 1..Len(o) |-> o[Len(o) + 1 - i]] : o \in argsort(sims)}

\* sorted_df of the cosine branch: the rows in the order of top_indices, with
\* the similarity in the column Distance
calculate_distances_cosine(query_vector, arrays) ==
    IF arrays = <<>>
    THEN {Raise("ValueError")}      \* cosine_similarity: 0 samples
    ELSE LET sims == cosine_similarities(query_vector, arrays)
         IN {Ok([i \in 1..Len(arrays) |->
                    [fs |-> arrays[top_indices[i]],
                     index |-> top_indices[i],
                     Distance |-> sims[top_indices[i]]]])
                : top_indices \in argsort_reversed(sims)}

MaxCosineBucket == 3

\* FS arrays that vary in FS1 and FS2 and are 0 elsewhere
CosineVec(x, y) == [i \in 1..FSDim |-> IF i = 1 THEN x ELSE IF i = 2 THEN y ELSE 0]

CosineVectors ==
    {CosineVec(1, 0), CosineVec(2, 0), CosineVec(0, 1), CosineVec(1, 1),
     CosineVec(2, 2), CosineVec(1, 2), CosineVec(0, 0)}

CosineUsers == {CosineVec(1, 0), CosineVec(1, 1), CosineVec(1, 2)}

InitCosine ==
    /\ pc = "call"
    /\ transformed_profiles = <<>>
    /\ job_history = List(<<>>)
    /\ preferences = None
    /\ rated_conceptUri_list = NaN
    /\ user_profile_rating_list = NaN
    /\ user_profiles = <<>>
    /\ filtered_profiles = Ok(<<>>)
    /\ target_profile \in CosineUsers
    /\ candidates \in SeqsUpTo(CosineVectors, MaxCosineBucket)
    /\ transformed_profiles_preferred = IndexedFrame(<<>>)
    /\ job_columns = "str"
    /\ process = "running"
    /\ response = NoResponse
    /\ runs = <<>>
    /\ argsort_memo = {}
    /\ ret = Ok(<<>>)

CallCalculateDistancesCosine ==
    /\ pc = "call"
    /\ ret' \in calculate_distances_cosine(target_profile, candidates)
    /\ pc' = "done"
    /\ UNCHANGED <<inputs, filtered_profiles, target_profile, candidates,
                   job_columns, host, repeat>>

NextCosine == CallCalculateDistancesCosine

SpecCosine == InitCosine /\ [][NextCosine]_vars

\* candidate u is more similar to the user than candidate v: cos(user, u) >
\* cos(user, v), cross-multiplied
MoreSimilar(u, v) ==
    dot(target_profile, u, 1) * dot(target_profile, u, 1) * norm2(v)
        > dot(target_profile, v, 1) * dot(target_profile, v, 1) * norm2(u)

EquallySimilar(u, v) == ~MoreSimilar(u, v) /\ ~MoreSimilar(v, u)

\* C25 as stated: cosine metric: a candidate more similar to the user is
\* placed before one less similar, and candidates of equal similarity keep
\* their input order.
C25_DescendingAndStable ==
    Returned =>
        \A i, j \in 1..Len(candidates) :
            /\ MoreSimilar(candidates[i], candidates[j]) => RankOf(i) < RankOf(j)
            /\ (EquallySimilar(candidates[i], candidates[j]) /\ i < j)
                  => RankOf(i) < RankOf(j)

\* C25 as the code has it: cosine metric: the output holds every candidate of
\* the bucket once, and a candidate more similar to the user is placed before
\* one less similar; the order of candidates of equal similarity is not
\* determined.
C25_Descending ==
    Returned =>
        /\ Len(ret.val) = Len(candidates)
        /\ \A i \in 1..Len(candidates) :
              \E k \in 1..Len(ret.val) :
                  ret.val[k].index = i /\ ret.val[k].fs = candidates[i]
        /\ \A i, j \in 1..Len(candidates) :
              MoreSimilar(candidates[i], candidates[j]) => RankOf(i) < RankOf(j)

C25_Witness ==
    /\ Returned
    /\ Len(candidates) = MaxCosineBucket
    /\ \E i, j \in 1..Len(candidates) :
          /\ i < j
          /\ MoreSimilar(candidates[j], candidates[i])
          /\ RankOf(j) < RankOf(i)
    /\ \E i, j \in 1..Len(candidates) :
          /\ i < j
          /\ candidates[i] # candidates[j]
          /\ EquallySimilar(candidates[i], candidates[j])
          /\ RankOf(j) < RankOf(i)

\* the disliked uris of the history that have no profile in the pool
DislikedOutsidePool ==
    DislikedIn(job_history.items) \ IndexOf(transformed_profiles)

\* C26: a disliked uri of the taxonomy that has no profile in the pool does
\* not fail the call: the pool is returned without the disliked uris.
C26_DislikedOutsidePoolSkipped ==
    (pc = "done" /\ job_history.kind = "list"
        /\ DislikedIn(job_history.items) \subseteq TaxonomyUris
        /\ DislikedOutsidePool # {})
    => /\ ret.err = "none"
       /\ IndexOf(ret.val) \cap DislikedIn(job_history.items) = {}

\* C27: end to end: no entry of the result is an occupation the user disliked,
\* one within distance 30 of a disliked one, or a narrower one of a disliked
\* one.
C27_ResultAvoidsDisliked ==
    (Len(runs) >= 1 /\ runs[1].err = "none") =>
        \A n \in 1..Len(runs[1].val) :
            \A d \in DislikedIn(job_history.items) :
                ~ExcludedBy(d, runs[1].val[n].conceptUri)

Survivors == head(drop_duplicates(merge_broader(candidates, 1)))

\* C29: the refined result has exactly one entry for each candidate that
\* survived the de-duplication, whether or not its broader profile is in the
\* preference-filtered pool, and no conceptUri appears twice.
C29_OneEntryPerSurvivor ==
    (pc = "done" /\ ret.err = "none") =>
        /\ \A s \in 1..Len(Survivors) :
              Cardinality({n \in 1..Len(ret.val) :
                              ret.val[n].origin = Survivors[s].origin}) = 1
        /\ \A i, j \in 1..Len(ret.val) :
              i # j => ret.val[i].conceptUri # ret.val[j].conceptUri

\* C30: a surviving candidate that has no row in the broader-relations table
\* is kept as it is, and the refiner does not fail.
C30_NoBroaderKeptAsIs ==
    pc = "done" =>
        \A s \in 1..Len(Survivors) :
            broaderUri_of(Survivors[s].conceptUri) = <<>> =>
                /\ ret.err = "none"
                /\ \E n \in 1..Len(ret.val) :
                      /\ ret.val[n].origin = Survivors[s].origin
                      /\ ret.val[n].conceptUri = Survivors[s].conceptUri

====
